---- MODULE Spec2Model ----
(***************************************************************************)
(* MLFlowAnalyticsReceiver (custom/mlflow_receiver.py): the receiver's     *)
(* fields, the three hooks the host calls (initialize, save, finalize),    *)
(* and the calls each hook makes on the two client libraries (mlflow and   *)
(* the TensorBoard SummaryWriter).                                         *)
(*                                                                         *)
(* Strings are Python strings (\o is +), a dict is the sequence of its     *)
(* items in insertion order, and None is the string "None".  Every call a  *)
(* hook makes on a library is recorded, in order, in `calls`; a library    *)
(* call may raise, which is an input of the hook (failAt).                 *)
(***************************************************************************)
EXTENDS Integers, Sequences, FiniteSets, TLC

\* ---- bounds of the model
MaxHooks == 4          \* hook calls the host makes in one behaviour

\* ---- the values the host supplies
Origins == {"site-1", "site-2"}           \* record_origin
RunDirs == {"ws/job1"}                    \* workspace.get_run_dir(job_id)
\* the key/value items an event's dxo.data is made of
Items == { [k |-> "loss", v |-> 1], [k |-> "acc", v |-> 2] }
DataTypes == {"SCALAR", "TEXT", "IMAGE", "SCALARS", "METRICS"}
None == "None"

\* analytic_data.kwargs: a dict of keyword arguments, or not a dict (None)
KwargsValues == { [isdict |-> FALSE, args |-> {}],
                  [isdict |-> TRUE,  args |-> {"global_step"}] }

\* dxo.data: the dicts made of these items, in every insertion order; the keys
\* of a dict are distinct
RECURSIVE SeqsUpTo(_, _)
SeqsUpTo(S, n) ==
  IF n = 0 THEN {<<>>}
  ELSE LET shorter == SeqsUpTo(S, n - 1)
       IN shorter \cup { Append(s, x) : s \in shorter, x \in S }

DistinctKeys(d) == \A i, j \in 1..Len(d) : i # j => d[i].k # d[j].k
DataValues == { d \in SeqsUpTo(Items, Cardinality(Items)) : DistinctKeys(d) }

\* ---- constants of the program
tb_folder == "tb_events"

\* mutant: the lookup falls back to add_scalar instead of None
FUNCTION_MAPPING_Fallback(data_type) ==
  CASE data_type = "SCALAR"  -> "add_scalar"
    [] data_type = "TEXT"    -> "add_text"
    [] data_type = "IMAGE"   -> "add_image"
    [] data_type = "SCALARS" -> "add_scalars"
    [] OTHER -> "add_scalar"

\* FUNCTION_MAPPING.get(data_type, None)
FUNCTION_MAPPING(data_type) ==
  CASE data_type = "SCALAR"  -> "add_scalar"
    [] data_type = "TEXT"    -> "add_text"
    [] data_type = "IMAGE"   -> "add_image"
    [] data_type = "SCALARS" -> "add_scalars"
    [] OTHER -> None

\* os.path.join(a, b) of two relative names
PathJoin(a, b) == a \o "/" \o b

VARIABLES
  writers_table,   \* self.writers_table: record_origin -> writer (its id)
  root_log_dir,    \* self.root_log_dir
  mlflow_client,   \* self.mlflow_client
  writers,         \* the SummaryWriter objects created so far, by id
  mlflow,          \* the mlflow module's state, as this receiver drives it
  calls,           \* the library calls of the hook that ran last, in order
  hook,            \* the hook that ran last, its arguments and its outcome
  nhooks,          \* hook calls so far
  lifecycle,       \* where the calls so far stand in: initialize, save*, finalize
  sdk_failed,      \* some library call has raised
  passed           \* record_origins passed to save since initialize set root_log_dir

vars == <<writers_table, root_log_dir, mlflow_client, writers, mlflow, calls,
          hook, nhooks, lifecycle, sdk_failed, passed>>

\* One call on a library.  w: the writer called (0: none); live: whether the
\* resource the call acts on (the mlflow run, the writer) was active/open when
\* the call was made; ok: FALSE when the call raised.
Call(sdk, op, w, tag, value, kw, live, ok) ==
  [sdk |-> sdk, op |-> op, w |-> w, tag |-> tag, value |-> value, kw |-> kw,
   live |-> live, ok |-> ok]

NoHook == [name |-> "none", origin |-> "", data_type |-> "", data |-> <<>>,
           kwargs |-> [isdict |-> FALSE, args |-> {}], outcome |-> "ok"]

\* __init__
Init ==
  /\ writers_table = <<>>
  /\ root_log_dir = None
  /\ mlflow_client = None
  /\ writers = <<>>
  /\ mlflow = [tracking_uri |-> None, experiment |-> None, run_active |-> FALSE,
               runs_started |-> 0, runs_ended |-> 0]
  /\ calls = <<>>
  /\ hook = NoHook
  /\ nhooks = 0
  /\ lifecycle = "new"
  /\ sdk_failed = FALSE
  /\ passed = {}

\* Execution is synchronous: the host calls a hook only when none is running.
Idle == hook.name = "none"

\* The host's lifecycle: initialize, then saves, then finalize; anything else is "off".
LifecycleStep(phase, name) ==
  CASE phase = "new" /\ name = "initialize"  -> "running"
    [] phase = "running" /\ name = "save"     -> "running"
    [] phase = "running" /\ name = "finalize" -> "finalized"
    [] OTHER -> "off"

\* ---- initialize
InitializeOps == <<"makedirs", "MLClient", "workspaces.get", "MlflowClient",
                   "set_tracking_uri", "set_experiment", "start_run">>

\* the n-th library call of initialize returned (failAt = 0: none raises)
Returned(failAt, n) == failAt = 0 \/ failAt > n

InitializeCalls(ml, failAt) ==
  [i \in 1..(IF failAt = 0 THEN Len(InitializeOps) ELSE failAt) |->
     Call(IF i = 1 THEN "os" ELSE IF i \in {2, 3} THEN "azure" ELSE "mlflow",
          InitializeOps[i], 0, "", 0, {}, ml.run_active, i # failAt)]

\* mutant: the run is never started
InitializeMlflow_NoStart(ml, failAt) ==
  [ml EXCEPT
     !.tracking_uri = IF Returned(failAt, 5) THEN "azureml_mlflow_uri" ELSE @,
     !.experiment   = IF Returned(failAt, 6) THEN "nvflare-experiment" ELSE @]

\* mlflow.set_tracking_uri, mlflow.set_experiment, mlflow.start_run
InitializeMlflow(ml, failAt) ==
  [ml EXCEPT
     !.tracking_uri = IF Returned(failAt, 5) THEN "azureml_mlflow_uri" ELSE @,
     !.experiment   = IF Returned(failAt, 6) THEN "nvflare-experiment" ELSE @,
     !.run_active   = IF Returned(failAt, 7) THEN TRUE ELSE @,
     !.runs_started = IF Returned(failAt, 7) THEN @ + 1 ELSE @]

Initialize(run_dir, failAt) ==
  /\ Idle
  /\ nhooks < MaxHooks
  /\ root_log_dir' = IF Returned(failAt, 1) THEN PathJoin(run_dir, tb_folder)
                     ELSE root_log_dir
  /\ mlflow_client' = IF Returned(failAt, 4) THEN "MlflowClient" ELSE mlflow_client
  /\ mlflow' = InitializeMlflow(mlflow, failAt)
  /\ calls' = InitializeCalls(mlflow, failAt)
  /\ hook' = [NoHook EXCEPT !.name = "initialize",
                            !.outcome = IF failAt = 0 THEN "ok" ELSE "raised"]
  /\ nhooks' = nhooks + 1
  /\ lifecycle' = LifecycleStep(lifecycle, "initialize")
  /\ sdk_failed' = (sdk_failed \/ failAt # 0)
  /\ UNCHANGED <<writers_table, writers, passed>>

\* ---- save
\* mutant: the tag is the key alone
TagName_KeyOnly(record_origin, k) == k

\* tag_name = f"{k}"; tag_name = record_origin + "_" + tag_name
TagName(record_origin, k) == record_origin \o "_" \o k

\* mutant: the IMAGE branch is missing
MlflowOp_NoImage(data_type) ==
  CASE data_type = "SCALAR" -> "log_metric"
    [] data_type = "TEXT"   -> "log_text"
    [] OTHER -> None

\* mutant: SCALARS events are mirrored as metrics too
MlflowOp_Scalars(data_type) ==
  CASE data_type \in {"SCALAR", "SCALARS"} -> "log_metric"
    [] data_type = "IMAGE"  -> "log_figure"
    [] data_type = "TEXT"   -> "log_text"
    [] OTHER -> None

\* the mlflow call save makes for an item of this data type, None when it makes none
MlflowOp(data_type) ==
  CASE data_type = "SCALAR" -> "log_metric"
    [] data_type = "IMAGE"  -> "log_figure"
    [] data_type = "TEXT"   -> "log_text"
    [] OTHER -> None

\* the keyword arguments of the writer call: **kwargs when kwargs is a dict
WriterKwargs(kwargs) == IF kwargs.isdict THEN kwargs.args ELSE {}

\* mutant: the lookup never finds the writer
WritersTableGet_Miss(table, record_origin) == 0

\* self.writers_table.get(record_origin): the writer's id, 0 for None
WritersTableGet(table, record_origin) ==
  IF record_origin \in DOMAIN table THEN table[record_origin] ELSE 0

\* self.writers_table[record_origin] = writer
WritersTableSet(table, record_origin, w) ==
  [o \in DOMAIN table \cup {record_origin} |->
     IF o = record_origin THEN w ELSE table[o]]

\* SummaryWriter(log_dir=peer_log_dir)
SummaryWriter(log_dir) ==
  [log_dir |-> log_dir, open |-> TRUE, dirty |-> FALSE, close_calls |-> 0]

\* the effect of writer.add_*(...): an event is pending, and the writer's file
\* is open (a write on a closed SummaryWriter opens a new event file)
WriterAdd(wr) == [wr EXCEPT !.open = TRUE, !.dirty = TRUE]

\* A hook's progress: the calls made, the writers, the mlflow state, whether a
\* call raised, and fail: the library call that raises, counted from here (0: none).
Progress(ws, ml, fail) ==
  [calls |-> <<>>, ws |-> ws, ml |-> ml, fail |-> fail, raised |-> FALSE]

\* mutant: the exception is caught and the hook carries on
AfterCall_Swallowed(st, call) ==
  [st EXCEPT !.calls = Append(@, [call EXCEPT !.ok = (st.fail # 1)]),
             !.fail = IF @ > 0 THEN @ - 1 ELSE 0]

\* a library call that may raise has been made: record it and count down
AfterCall(st, call) ==
  [st EXCEPT !.calls = Append(@, [call EXCEPT !.ok = (st.fail # 1)]),
             !.raised = (st.fail = 1),
             !.fail = IF @ > 0 THEN @ - 1 ELSE 0]

\* one of the calls made so far is the one that raises
Raising(st) == \E i \in 1..Len(st.calls) : ~st.calls[i].ok

\* the mlflow branch of the loop body
SaveItemMlflow(st, data_type, tag_name, v) ==
  IF MlflowOp(data_type) = None THEN st
  ELSE AfterCall(st, Call("mlflow", MlflowOp(data_type), 0, tag_name, v, {},
                          st.ml.run_active, TRUE))

\* the writer branch of the loop body
SaveItemWriter(st, w, data_type, kwargs, tag_name, v) ==
  LET func_name == FUNCTION_MAPPING(data_type)
  IN IF func_name = None
     THEN [st EXCEPT !.calls = Append(@, Call("log", "log_error", 0, data_type,
                                              0, {}, TRUE, TRUE))]
     ELSE LET done == AfterCall(st, Call("writer", func_name, w, tag_name, v,
                                         WriterKwargs(kwargs), st.ws[w].open, TRUE))
          IN IF done.raised THEN done
             ELSE [done EXCEPT !.ws[w] = WriterAdd(@)]

\* one iteration of: for k, v in dxo.data.items()
SaveItem(st, w, record_origin, data_type, kwargs, item) ==
  LET tag_name == TagName(record_origin, item.k)
      s1 == [st EXCEPT !.calls = Append(@, Call("log", "log_debug", 0, tag_name,
                                                item.v, {}, TRUE, TRUE))]
      s2 == SaveItemMlflow(s1, data_type, tag_name, item.v)
  IN IF s2.raised THEN s2
     ELSE SaveItemWriter(s2, w, data_type, kwargs, tag_name, item.v)

RECURSIVE SaveLoop(_, _, _, _, _, _)
SaveLoop(st, w, record_origin, data_type, kwargs, items) ==
  IF items = <<>> \/ st.raised THEN st
  ELSE SaveLoop(SaveItem(st, w, record_origin, data_type, kwargs, Head(items)),
                w, record_origin, data_type, kwargs, Tail(items))

\* mutant: the join accepts None
JoinRaises_Never(root) == FALSE

\* os.path.join(self.root_log_dir, record_origin) raises TypeError on None
JoinRaises(root) == root = None

SaveHook(record_origin, data_type, data, kwargs, outcome) ==
  [name |-> "save", origin |-> record_origin, data_type |-> data_type,
   data |-> data, kwargs |-> kwargs, outcome |-> outcome]

Save(record_origin, data_type, data, kwargs, failAt) ==
  /\ Idle
  /\ nhooks < MaxHooks
  /\ nhooks' = nhooks + 1
  /\ lifecycle' = LifecycleStep(lifecycle, "save")
  /\ passed' = IF root_log_dir # None THEN passed \cup {record_origin} ELSE passed
  /\ UNCHANGED <<root_log_dir, mlflow_client>>
  /\ LET found == WritersTableGet(writers_table, record_origin)
     IN IF found = 0 /\ JoinRaises(root_log_dir)
        THEN /\ failAt = 0
             /\ calls' = <<>>
             /\ hook' = SaveHook(record_origin, data_type, data, kwargs, "raised")
             /\ UNCHANGED <<writers_table, writers, mlflow, sdk_failed>>
        ELSE LET w  == IF found = 0 THEN Len(writers) + 1 ELSE found
                 ws == IF found = 0
                       THEN Append(writers,
                                   SummaryWriter(PathJoin(root_log_dir, record_origin)))
                       ELSE writers
                 st == SaveLoop(Progress(ws, mlflow, failAt), w, record_origin,
                                data_type, kwargs, data)
             IN /\ failAt = 0 \/ Raising(st)
                /\ writers_table' = IF found = 0
                                    THEN WritersTableSet(writers_table, record_origin, w)
                                    ELSE writers_table
                /\ writers' = st.ws
                /\ mlflow' = st.ml
                /\ calls' = st.calls
                /\ hook' = SaveHook(record_origin, data_type, data, kwargs,
                                    IF st.raised THEN "raised" ELSE "ok")
                /\ sdk_failed' = (sdk_failed \/ st.raised)

\* ---- finalize
\* mlflow.end_run()
EndRun(ml) ==
  [ml EXCEPT !.run_active = FALSE,
             !.runs_ended = IF ml.run_active THEN @ + 1 ELSE @]

\* self.writers_table.values(): the writers in the order they were registered
\* (ids grow with registration)
RECURSIVE Ascending(_)
Ascending(S) ==
  IF S = {} THEN <<>>
  ELSE LET m == CHOOSE x \in S : \A y \in S : x <= y
       IN <<m>> \o Ascending(S \ {m})

WritersTableValues(table) == Ascending({ table[o] : o \in DOMAIN table })

\* the effect of writer.flush() and of writer.close()
WriterFlush(wr) == [wr EXCEPT !.dirty = FALSE]
WriterClose(wr) == [wr EXCEPT !.open = FALSE, !.dirty = FALSE, !.close_calls = @ + 1]

\* mutant: the writer is closed and then flushed
FinalizeWriter_CloseFirst(st, w) ==
  LET closed == AfterCall(st, Call("writer", "close", w, "", 0, {}, st.ws[w].open, TRUE))
      s1 == IF closed.raised THEN closed
            ELSE [closed EXCEPT !.ws[w] = WriterClose(@)]
      flushed == AfterCall(s1, Call("writer", "flush", w, "", 0, {}, s1.ws[w].open, TRUE))
  IN IF s1.raised THEN s1
     ELSE IF flushed.raised THEN flushed
     ELSE [flushed EXCEPT !.ws[w] = WriterFlush(@)]

\* the loop body: writer.flush(); writer.close()
FinalizeWriter(st, w) ==
  LET flushed == AfterCall(st, Call("writer", "flush", w, "", 0, {}, st.ws[w].open, TRUE))
      s1 == IF flushed.raised THEN flushed
            ELSE [flushed EXCEPT !.ws[w] = WriterFlush(@)]
      closed == AfterCall(s1, Call("writer", "close", w, "", 0, {}, s1.ws[w].open, TRUE))
  IN IF s1.raised THEN s1
     ELSE IF closed.raised THEN closed
     ELSE [closed EXCEPT !.ws[w] = WriterClose(@)]

RECURSIVE FinalizeLoop(_, _)
FinalizeLoop(st, ids) ==
  IF ids = <<>> \/ st.raised THEN st
  ELSE FinalizeLoop(FinalizeWriter(st, Head(ids)), Tail(ids))

FinalizeRun(ws, ml, table, failAt) ==
  LET ended == AfterCall(Progress(ws, ml, failAt),
                         Call("mlflow", "end_run", 0, "", 0, {}, ml.run_active, TRUE))
      s1 == IF ended.raised THEN ended ELSE [ended EXCEPT !.ml = EndRun(@)]
  IN FinalizeLoop(s1, WritersTableValues(table))

Finalize(failAt) ==
  /\ Idle
  /\ nhooks < MaxHooks
  /\ nhooks' = nhooks + 1
  /\ lifecycle' = LifecycleStep(lifecycle, "finalize")
  /\ LET st == FinalizeRun(writers, mlflow, writers_table, failAt)
     IN /\ failAt = 0 \/ Raising(st)
        /\ writers' = st.ws
        /\ mlflow' = st.ml
        /\ calls' = st.calls
        /\ hook' = [NoHook EXCEPT !.name = "finalize",
                                  !.outcome = IF st.raised THEN "raised" ELSE "ok"]
        /\ sdk_failed' = (sdk_failed \/ st.raised)
  /\ UNCHANGED <<writers_table, root_log_dir, mlflow_client, passed>>

\* ---- the hook returns (or raises) to the host, which may then call the next one
Return ==
  /\ ~Idle
  /\ hook' = NoHook
  /\ calls' = <<>>
  /\ UNCHANGED <<writers_table, root_log_dir, mlflow_client, writers, mlflow,
                 nhooks, lifecycle, sdk_failed, passed>>

\* the library calls a save / a finalize can make: any of them may be the one
\* that raises (failAt names a call the hook gets to make)
MaxSaveCalls == 2 * Cardinality(Items)
MaxFinalizeCalls == 1 + 2 * Cardinality(Origins)

Next ==
  \/ \E run_dir \in RunDirs, failAt \in 0..Len(InitializeOps) : Initialize(run_dir, failAt)
  \/ \E record_origin \in Origins, data_type \in DataTypes, data \in DataValues,
        kwargs \in KwargsValues, failAt \in 0..MaxSaveCalls :
          Save(record_origin, data_type, data, kwargs, failAt)
  \/ \E failAt \in 0..MaxFinalizeCalls : Finalize(failAt)
  \/ Return

Spec == Init /\ [][Next]_vars

\* ======================================================================
\* Properties
\* ======================================================================

\* what the state shows of the hook that ran last
SaveRan     == hook.name = "save"
SaveOk      == hook.name = "save" /\ hook.outcome = "ok"
MlflowCalls == SelectSeq(calls, LAMBDA c : c.sdk = "mlflow")
WriterCalls == SelectSeq(calls, LAMBDA c : c.sdk = "writer")
ErrorLogs   == SelectSeq(calls, LAMBDA c : c.op = "log_error")
DebugLogs   == SelectSeq(calls, LAMBDA c : c.op = "log_debug")
Mirrored    == {"SCALAR", "TEXT", "IMAGE"}
Supported   == {"SCALAR", "TEXT", "IMAGE", "SCALARS"}

\* the sink operations the claims name for each data type
LocalOpOf(data_type) ==
  CASE data_type = "SCALAR"  -> "add_scalar"
    [] data_type = "TEXT"    -> "add_text"
    [] data_type = "IMAGE"   -> "add_image"
    [] data_type = "SCALARS" -> "add_scalars"
RemoteOpOf(data_type) ==
  CASE data_type = "SCALAR" -> "log_metric"
    [] data_type = "TEXT"   -> "log_text"
    [] data_type = "IMAGE"  -> "log_figure"

\* C1: a save of a SCALAR, TEXT or IMAGE event that returns has made, for every
\* item of the event, exactly one write call on the origin's writer (add_scalar,
\* add_text, add_image) and exactly one MLflow call (log_metric, log_text,
\* log_figure): the i-th call on each sink carries the i-th item.
C1_OneWriteOneMirror ==
  (SaveOk /\ hook.data_type \in Mirrored) =>
     /\ Len(WriterCalls) = Len(hook.data)
     /\ Len(MlflowCalls) = Len(hook.data)
     /\ \A i \in 1..Len(hook.data) :
          /\ WriterCalls[i].op = LocalOpOf(hook.data_type)
          /\ WriterCalls[i].w = writers_table[hook.origin]
          /\ WriterCalls[i].value = hook.data[i].v
          /\ MlflowCalls[i].op = RemoteOpOf(hook.data_type)
          /\ MlflowCalls[i].value = hook.data[i].v
          /\ MlflowCalls[i].tag = WriterCalls[i].tag

C1_Witness ==
  /\ SaveOk /\ hook.data_type = "IMAGE" /\ Len(hook.data) = 2
  /\ Len(MlflowCalls) = 2 /\ Len(WriterCalls) = 2

\* C2 as stated: the tag and the value of every MLflow call and writer call of a
\* save are the key and the value of an item of the event.
C2_ArgumentsUnchanged ==
  SaveRan =>
    /\ \A i \in 1..Len(MlflowCalls) : \E j \in 1..Len(hook.data) :
         MlflowCalls[i].tag = hook.data[j].k /\ MlflowCalls[i].value = hook.data[j].v
    /\ \A i \in 1..Len(WriterCalls) : \E j \in 1..Len(hook.data) :
         WriterCalls[i].tag = hook.data[j].k /\ WriterCalls[i].value = hook.data[j].v

\* C2, amended: the value of the i-th MLflow call and of the i-th writer call of a
\* save is the value of the i-th item, unchanged, and the tag of both is
\* record_origin + "_" + key, not the key.
C2_ValueUnchangedTagPrefixed ==
  SaveRan =>
    /\ \A i \in 1..Len(MlflowCalls) :
         /\ i <= Len(hook.data)
         /\ MlflowCalls[i].tag = hook.origin \o "_" \o hook.data[i].k
         /\ MlflowCalls[i].tag # hook.data[i].k
         /\ MlflowCalls[i].value = hook.data[i].v
    /\ \A i \in 1..Len(WriterCalls) :
         /\ i <= Len(hook.data)
         /\ WriterCalls[i].tag = hook.origin \o "_" \o hook.data[i].k
         /\ WriterCalls[i].tag # hook.data[i].k
         /\ WriterCalls[i].value = hook.data[i].v

C2_Witness ==
  /\ SaveOk /\ hook.data_type = "SCALAR" /\ hook.origin = "site-2"
  /\ hook.data = << [k |-> "acc", v |-> 2], [k |-> "loss", v |-> 1] >>
  /\ Len(MlflowCalls) = 2 /\ Len(WriterCalls) = 2
  /\ WriterCalls[2].tag = "site-2_loss"

\* C4: a save (after initialize) of an event whose data type is none of SCALAR,
\* TEXT, IMAGE, SCALARS returns normally, having logged one error per item and
\* made no MLflow call and no writer call; the origin's writer is registered all
\* the same.
C4_UnsupportedTypeSkipped ==
  (SaveRan /\ hook.data_type \notin Supported /\ root_log_dir # None) =>
     /\ hook.outcome = "ok"
     /\ Len(ErrorLogs) = Len(hook.data)
     /\ Len(DebugLogs) = Len(hook.data)
     /\ MlflowCalls = <<>>
     /\ WriterCalls = <<>>
     /\ hook.origin \in DOMAIN writers_table
     /\ writers_table[hook.origin] \in 1..Len(writers)

C4_Witness ==
  /\ SaveOk /\ hook.data_type = "METRICS" /\ Len(hook.data) = 2
  /\ Len(ErrorLogs) = 2 /\ hook.origin \in DOMAIN writers_table

\* C9: a save of a SCALARS event that returns has made one add_scalars call per
\* item on the origin's writer and no MLflow call; whatever the event, a save
\* makes MLflow calls only for SCALAR, TEXT and IMAGE and writer calls only for
\* these and SCALARS, and a returned save of a non-empty event makes them.
C9_ScalarsLocalOnly ==
  /\ (SaveOk /\ hook.data_type = "SCALARS") =>
        /\ MlflowCalls = <<>>
        /\ Len(WriterCalls) = Len(hook.data)
        /\ \A i \in 1..Len(WriterCalls) :
             /\ WriterCalls[i].op = "add_scalars"
             /\ WriterCalls[i].w = writers_table[hook.origin]
  /\ SaveRan =>
        /\ MlflowCalls # <<>> => hook.data_type \in Mirrored
        /\ WriterCalls # <<>> => hook.data_type \in Supported
  /\ (SaveOk /\ hook.data # <<>>) =>
        /\ hook.data_type \in Mirrored => MlflowCalls # <<>>
        /\ hook.data_type \in Supported => WriterCalls # <<>>

C9_Witness ==
  /\ SaveOk /\ hook.data_type = "SCALARS" /\ Len(hook.data) = 2
  /\ Len(WriterCalls) = 2 /\ MlflowCalls = <<>>

\* C3 as stated: when a library call of a hook raises, the hook still returns
\* normally, and a save still processes every item of the event.
C3_ErrorsSwallowed ==
  (\E i \in 1..Len(calls) : ~calls[i].ok) =>
     /\ hook.outcome = "ok"
     /\ SaveRan => Len(DebugLogs) = Len(hook.data)

\* C3, amended: when a library call of a hook raises, nothing catches it: it is
\* the last thing the hook does (no log call, no further library call, no
\* further item) and the hook raises to the host.
C3_FailurePropagates ==
  \A i \in 1..Len(calls) : ~calls[i].ok =>
     /\ hook.outcome = "raised"
     /\ i = Len(calls)
     /\ ErrorLogs = <<>>

C3_Witness ==
  /\ SaveRan /\ hook.outcome = "raised" /\ Len(hook.data) = 2
  /\ Len(DebugLogs) = 1
  /\ ~calls[Len(calls)].ok /\ calls[Len(calls)].op = "log_metric"

\* C5, the table: the origins of the writers table are the origins passed to save
\* since initialize; distinct origins hold distinct writers (no writer exists
\* besides); the writer of o logs to <run dir>/tb_events/o; a save writes only
\* on the writer of its origin.
WritersTableOk ==
  /\ DOMAIN writers_table = passed
  /\ Len(writers) = Cardinality(DOMAIN writers_table)
  /\ \A o \in DOMAIN writers_table :
       /\ writers_table[o] \in 1..Len(writers)
       /\ \E run_dir \in RunDirs :
            writers[writers_table[o]].log_dir = run_dir \o "/tb_events/" \o o
       /\ \A p \in DOMAIN writers_table : p # o => writers_table[p] # writers_table[o]
  /\ SaveRan => \A i \in 1..Len(WriterCalls) :
       /\ hook.origin \in DOMAIN writers_table
       /\ WriterCalls[i].w = writers_table[hook.origin]

\* C5, the steps: an entry of the table never changes once made (the writer is
\* reused) and is made by the first save for its origin, with log directory
\* root_log_dir/o; a save leaves the writers of the other origins as they were.
WritersTableStep ==
  /\ \A o \in DOMAIN writers_table :
       /\ o \in DOMAIN writers_table'
       /\ writers_table'[o] = writers_table[o]
       /\ writers'[writers_table[o]].log_dir = writers[writers_table[o]].log_dir
  /\ \A o \in DOMAIN writers_table' \ DOMAIN writers_table :
       /\ hook'.name = "save" /\ hook'.origin = o
       /\ writers'[writers_table'[o]].log_dir = root_log_dir \o "/" \o o
  /\ hook'.name = "save" =>
       \A o \in DOMAIN writers_table :
          o # hook'.origin => writers'[writers_table[o]] = writers[writers_table[o]]

\* C5: after any sequence of hook calls the writers table holds exactly one
\* writer for each origin passed to save since initialize, created with log
\* directory root_log_dir/o, reused by later saves and written only by them.
C5_OneWriterPerOrigin == []WritersTableOk /\ [][WritersTableStep]_vars

\* three saves after initialize, for two origins: one of them reused its writer
C5_Witness ==
  /\ SaveOk /\ lifecycle = "running" /\ nhooks = 4
  /\ DOMAIN writers_table = Origins /\ Len(WriterCalls) = 2

\* C6: under the lifecycle initialize, save*, finalize with no library call
\* raising: one run has been started, by initialize after set_tracking_uri and
\* set_experiment; it is active from then until finalize ends it; every MLflow
\* log call of a save is made while it is active.
C6_OneRunAroundTheLogs ==
  (lifecycle \in {"running", "finalized"} /\ ~sdk_failed) =>
     /\ mlflow.runs_started = 1
     /\ lifecycle = "running" => mlflow.run_active /\ mlflow.runs_ended = 0
     /\ lifecycle = "finalized" => ~mlflow.run_active /\ mlflow.runs_ended = 1
     /\ hook.name = "initialize" =>
          \E i, j, k \in 1..Len(calls) :
             /\ i < k /\ j < k /\ k = Len(calls)
             /\ calls[i].op = "set_tracking_uri"
             /\ calls[j].op = "set_experiment"
             /\ calls[k].op = "start_run" /\ ~calls[k].live
     /\ SaveRan => \A i \in 1..Len(MlflowCalls) : MlflowCalls[i].live
     /\ hook.name = "finalize" =>
          /\ Len(MlflowCalls) = 1
          /\ MlflowCalls[1].op = "end_run" /\ MlflowCalls[1].live

C6_Witness ==
  /\ lifecycle = "finalized" /\ ~sdk_failed /\ nhooks = 4
  /\ hook.name = "finalize" /\ mlflow.runs_ended = 1
  /\ \E w \in 1..Len(writers) : writers[w].close_calls = 1

\* the registered writers, and where a call on a writer stands in the calls
Registered == { writers_table[o] : o \in DOMAIN writers_table }
Position(op, w) == { i \in 1..Len(calls) : calls[i].op = op /\ calls[i].w = w }

\* C7: a finalize that returns has called end_run first and then, for every
\* registered writer, flush once and close once, close right after flush; no
\* registered writer is left open or with unflushed events.
C7_FinalizeFlushesThenCloses ==
  (hook.name = "finalize" /\ hook.outcome = "ok") =>
     /\ Len(calls) = 1 + 2 * Cardinality(Registered)
     /\ calls[1].op = "end_run"
     /\ \A w \in Registered :
          /\ Cardinality(Position("flush", w)) = 1
          /\ Cardinality(Position("close", w)) = 1
          /\ \A i \in Position("flush", w) : i > 1 /\ (i + 1) \in Position("close", w)
          /\ ~writers[w].open
          /\ ~writers[w].dirty

C7_Witness ==
  /\ hook.name = "finalize" /\ hook.outcome = "ok"
  /\ Cardinality(Registered) = 2 /\ Len(calls) = 5

\* C8 as stated: no hook calls a writer that is closed (a write by save, a flush
\* or a close by finalize), and no writer is closed more than once.
C8_NoUseAfterClose ==
  /\ \A i \in 1..Len(WriterCalls) : WriterCalls[i].live
  /\ \A w \in 1..Len(writers) : writers[w].close_calls <= 1

\* C10, the step: a save while root_log_dir is None for an origin with no writer
\* raises without a library call and changes neither the table nor the writers.
SaveBeforeInitializeStep ==
  (hook'.name = "save" /\ root_log_dir = None
     /\ hook'.origin \notin DOMAIN writers_table) =>
       /\ hook'.outcome = "raised"
       /\ calls' = <<>>
       /\ writers_table' = writers_table
       /\ writers' = writers
       /\ mlflow' = mlflow

\* C10: a save before initialize for an origin with no registered writer fails
\* before any writer is created or registered and before any MLflow or writer
\* call.
C10_SaveBeforeInitializeFails == [][SaveBeforeInitializeStep]_vars

C10_Witness ==
  /\ SaveRan /\ hook.outcome = "raised" /\ root_log_dir = None
  /\ calls = <<>> /\ DOMAIN writers_table = {} /\ Len(hook.data) = 2
====
